---- MODULE Spec2Model ----
(***************************************************************************)
(* The asynchronous 1-Wire bus driver (src/src/asynch.rs): signal          *)
(* primitives, addressing layer and the resumable ROM search, run against  *)
(* a fixture bus of 1-Wire slaves.                                         *)
(*                                                                         *)
(* The driver is a stack of suspended async calls; one action is one step  *)
(* of the function on top of the stack: a time slot, one iteration of a    *)
(* loop, or the code between two awaited calls.  ROM codes are AddrBits    *)
(* wide instead of 64 and are checked by a one-bit CRC.                     *)
(***************************************************************************)
EXTENDS Integers, Sequences, FiniteSets, TLC

\* ---------------------------------------------------------------- bounds
AddrBits == 3          \* width of a ROM code (64 in the source)
MaxDevices == 3        \* devices on the static fixture bus
MaxLoose == 2          \* devices on a bus with faults and removals
MaxFaults == 1         \* pin failures / line faults injected in one run
MaxChanges == 1        \* devices removed from the bus in one run
MaxBuf == 2            \* length of a buffer read or written

\* ------------------------------------------------------------- constants
ByteBits == 8
SEARCH_NORMAL == 240
SEARCH_ALARM == 236
MATCH_ROM == 85
SKIP_ROM == 204
WaitTimeoutUs == 250

VARIABLES
    bus,        \* ROM codes of the devices on the line
    alarming,   \* the devices that answer the alarm search
    dev,        \* protocol state shared by the slaves
    stack,      \* suspended driver calls, innermost last
    rv,         \* value returned by the call that returned last
    trace,      \* pin and delay events of the current top-level call
    slots,      \* time slots started in the current top-level call
    pinLow,     \* the last successful drive of the pin was drive-low
    held,       \* the SearchState the caller holds for the next search
    wrote,      \* the byte of the last completed write_byte and its bits
    chain,      \* the enumeration in progress: filter, addresses so far
    call,       \* the top-level call in progress or completed last
    ret,        \* what the last completed top-level call returned
    faults,     \* faults still to inject
    changes     \* bus changes still to happen

vars == <<bus, alarming, dev, stack, rv, trace, slots, pinLow, held, wrote,
          chain, call, ret, faults, changes>>

\* ------------------------------------------------------------ bit values
Addresses == 0 .. (2 ^ AddrBits - 1)
Bytes == 0 .. (2 ^ ByteBits - 1)

Bit(x, i) == (x \div (2 ^ i)) % 2
SetBit(x, i) == IF Bit(x, i) = 1 THEN x ELSE x + 2 ^ i
ClearBit(x, i) == IF Bit(x, i) = 1 THEN x - 2 ^ i ELSE x

\* ---------------------------------------------------------------- results
None == [some |-> FALSE, address |-> 0, discrepancies |-> 0,
         last_discrepancy_index |-> 0]
SearchState(a, d, l) == [some |-> TRUE, address |-> a, discrepancies |-> d,
                         last_discrepancy_index |-> l]

NoAddress == [some |-> FALSE, address |-> 0]
SomeAddress(a) == [some |-> TRUE, address |-> a]

\* What a call returns: (), a bool, a byte or an optional SearchState.
Unit == [flag |-> FALSE, byte |-> 0, state |-> None]
Flag(b) == [Unit EXCEPT !.flag = b]
Byte(n) == [Unit EXCEPT !.byte = n]
State(s) == [Unit EXCEPT !.state = s]

Ok(v) == [ok |-> TRUE, val |-> v, err |-> "none"]
Err(e) == [ok |-> FALSE, val |-> Unit, err |-> e]

\* The arguments of a top-level call.
NoArg == [search_state |-> None, only_alarming |-> FALSE, byte |-> 0,
          address |-> NoAddress]

\* ------------------------------------------------------------------ events
Ev(op, val) == [op |-> op, res |-> "Ok", val |-> val]

Fallible(e) == e.op \in {"set_bus_low", "release_bus", "is_bus_high", "is_bus_low"}

RECURSIVE Exec(_, _)
\* Straight-line pin code with `?` after every pin call: the events up to
\* and including the fail-th pin call, which returns Err (0: none fails).
Exec(instrs, fail) ==
    IF instrs = <<>> THEN <<>>
    ELSE LET h == Head(instrs) IN
         IF ~Fallible(h) THEN <<h>> \o Exec(Tail(instrs), fail)
         ELSE IF fail = 1 THEN <<[h EXCEPT !.res = "Err"]>>
         ELSE <<h>> \o Exec(Tail(instrs), IF fail = 0 THEN 0 ELSE fail - 1)

RECURSIVE Driven(_, _)
\* Whether the pin is left driven low after the events ev.
Driven(low, ev) ==
    IF ev = <<>> THEN low
    ELSE LET h == Head(ev) IN
         Driven(IF h.res = "Ok" /\ h.op = "set_bus_low" THEN TRUE
                ELSE IF h.res = "Ok" /\ h.op = "release_bus" THEN FALSE
                ELSE low, Tail(ev))

B2N(b) == IF b THEN 1 ELSE 0

\* ----------------------------------------------------------- the fixture
\* CRC with a one-bit register over the bits of the ROM code.
RECURSIVE Crc(_, _)
Crc(a, n) == IF n = 0 THEN 0 ELSE (Crc(a, n - 1) + Bit(a, n - 1)) % 2

check_crc8(a) == IF Crc(a, AddrBits) = 0 THEN Ok(Unit) ELSE Err("ChecksumMismatch")

ValidAddresses == {a \in Addresses : check_crc8(a).ok}

DevIdle == [mode |-> "idle", cmd |-> <<>>, pos |-> 0, phase |-> 0, sel |-> {},
            fifo |-> <<>>, tx |-> FALSE]

\* The loopback fixture: it takes a byte and echoes it, bit by bit.
DevEcho == [DevIdle EXCEPT !.mode = "echo"]

\* A reset pulse: every slave on the line listens for a ROM command.
DevReset == [DevIdle EXCEPT !.mode = "rom", !.sel = bus]

RECURSIVE BitsValue(_)
BitsValue(bits) == IF bits = <<>> THEN 0 ELSE Head(bits) + 2 * BitsValue(Tail(bits))

\* The slaves still taking part in the search.
Live(d) == d.sel \cap bus

\* The level of the line when the master samples it inside a slot: low
\* when some slave pulls it low.
LineHigh(d) ==
    CASE d.mode = "search" /\ d.phase = 0 -> \A a \in Live(d) : Bit(a, d.pos) = 1
      [] d.mode = "search" /\ d.phase = 1 -> \A a \in Live(d) : Bit(a, d.pos) = 0
      [] d.mode = "echo" /\ d.tx -> Head(d.fifo) = 1
      [] OTHER -> TRUE

\* A time slot seen by the slaves; b is the bit the master's low pulse
\* encodes (a read slot has the timing of a written 1).
DevSlot(d, b) ==
    CASE d.mode = "rom" ->
           LET c == Append(d.cmd, b) IN
           IF Len(c) < ByteBits THEN [d EXCEPT !.cmd = c]
           ELSE IF BitsValue(c) = SEARCH_NORMAL
                THEN [d EXCEPT !.mode = "search", !.cmd = <<>>]
           ELSE IF BitsValue(c) = SEARCH_ALARM
                THEN [d EXCEPT !.mode = "search", !.cmd = <<>>,
                               !.sel = d.sel \cap alarming]
           ELSE [d EXCEPT !.mode = "data", !.cmd = <<>>]
      [] d.mode = "search" ->
           IF d.phase < 2 THEN [d EXCEPT !.phase = d.phase + 1]
           ELSE LET s == {a \in d.sel : Bit(a, d.pos) = b} IN
                IF d.pos + 1 < AddrBits
                THEN [d EXCEPT !.sel = s, !.pos = d.pos + 1, !.phase = 0]
                ELSE [d EXCEPT !.mode = "data", !.sel = s, !.pos = 0, !.phase = 0]
      [] d.mode = "echo" ->
           IF d.tx
           THEN [d EXCEPT !.fifo = Tail(d.fifo), !.tx = Len(d.fifo) > 1]
           ELSE [d EXCEPT !.fifo = Append(d.fifo, b),
                          !.tx = Len(d.fifo) + 1 = ByteBits]
      [] OTHER -> d

\* ------------------------------------------------------ signal primitives
\* The line is sampled before it is released.
read_bit_held(fail, high) ==
    [ev |-> Exec(<<Ev("set_bus_low", 0), Ev("delay_us", 6),
                   Ev("is_bus_high", B2N(high)), Ev("release_bus", 0),
                   Ev("delay_us", 9), Ev("delay_us", 55)>>, fail),
     res |-> IF fail = 0 THEN Ok(Flag(high)) ELSE Err("PinError")]

read_bit(fail, high) ==
    [ev |-> Exec(<<Ev("set_bus_low", 0), Ev("delay_us", 6),
                   Ev("release_bus", 0), Ev("delay_us", 9),
                   Ev("is_bus_high", B2N(high)), Ev("delay_us", 55)>>, fail),
     res |-> IF fail = 0 THEN Ok(Flag(high)) ELSE Err("PinError")]

write_1_bit(fail) ==
    [ev |-> Exec(<<Ev("set_bus_low", 0), Ev("delay_us", 6),
                   Ev("release_bus", 0), Ev("delay_us", 64)>>, fail),
     res |-> IF fail = 0 THEN Ok(Unit) ELSE Err("PinError")]

write_0_bit(fail) ==
    [ev |-> Exec(<<Ev("set_bus_low", 0), Ev("delay_us", 60),
                   Ev("release_bus", 0), Ev("delay_us", 10)>>, fail),
     res |-> IF fail = 0 THEN Ok(Unit) ELSE Err("PinError")]

write_bit(value, fail) == IF value THEN write_1_bit(fail) ELSE write_0_bit(fail)

\* A run of time slots inside one step: the slaves' state, the events and
\* slots so far, and the pin call (counted from here) that is to fail.
Ctx(fail) == [dev |-> dev, ev |-> <<>>, slots |-> <<>>, fail |-> fail, res |-> Ok(Unit)]

Here(c, n) == IF c.fail \in 1 .. n THEN c.fail ELSE 0
After(c, n) == IF c.fail > n THEN c.fail - n ELSE 0

do_read_bit(c) ==
    LET r == read_bit(Here(c, 3), LineHigh(c.dev)) IN
    [dev |-> IF Here(c, 3) = 1 THEN c.dev ELSE DevSlot(c.dev, 1),
     ev |-> c.ev \o r.ev,
     slots |-> Append(c.slots, [kind |-> "read", bit |-> B2N(LineHigh(c.dev)),
                                ok |-> r.res.ok]),
     fail |-> After(c, 3),
     res |-> r.res]

do_write_bit(c, value) ==
    LET r == write_bit(value, Here(c, 2)) IN
    [dev |-> IF Here(c, 2) = 1 THEN c.dev ELSE DevSlot(c.dev, B2N(value)),
     ev |-> c.ev \o r.ev,
     slots |-> Append(c.slots, [kind |-> "write", bit |-> B2N(value),
                                ok |-> r.res.ok]),
     fail |-> After(c, 2),
     res |-> r.res]

\* --------------------------------------------------------- the call stack
Frame(fn, pc, v) == [fn |-> fn, pc |-> pc, v |-> v]
Top == stack[Len(stack)]
InFn(fn, pc) == stack # <<>> /\ Top.fn = fn /\ Top.pc = pc
Caller == SubSeq(stack, 1, Len(stack) - 1)

\* The pin calls that may fail in a step with n of them.
Fails(n) == IF faults > 0 THEN 0 .. n ELSE {0}

\* The effect of the time slots c, run with failing pin call fail; a pin
\* call that is to fail is one the step reaches.
Pins(c, fail) ==
    /\ c.fail = 0
    /\ trace' = trace \o c.ev
    /\ slots' = slots \o c.slots
    /\ pinLow' = Driven(pinLow, c.ev)
    /\ dev' = c.dev
    /\ faults' = IF fail = 0 THEN faults ELSE faults - 1
    /\ UNCHANGED <<bus, alarming, changes>>

NoPins == UNCHANGED <<bus, alarming, changes, dev, trace, slots, pinLow, faults>>

Running == [fn |-> "none", res |-> Ok(Unit)]

NothingWritten == [value |-> 0, bits |-> <<>>]

\* A top-level call fn(arg) starts with fresh logs.
Begin(fn, arg, frames) ==
    /\ stack = <<>>
    /\ stack' = frames
    /\ call' = [fn |-> fn, arg |-> arg]
    /\ trace' = <<>>
    /\ slots' = <<>>
    /\ ret' = Running
    /\ rv' = Ok(Unit)
    /\ UNCHANGED <<bus, alarming, changes, dev, pinLow, faults, held, wrote, chain>>

\* The function on top of the stack returns res to its caller.
Return(res) ==
    /\ stack' = Caller
    /\ rv' = res
    /\ ret' = IF Len(stack) = 1 THEN [fn |-> Top.fn, res |-> res] ELSE ret
    /\ wrote' = IF Len(stack) = 1 /\ Top.fn = "write_byte" /\ res.ok
                THEN [value |-> call.arg.byte,
                      bits |-> [i \in 1 .. Len(slots') |-> slots'[i].bit]]
                ELSE wrote
    /\ UNCHANGED <<call, held, chain>>

\* The function on top of the stack moves to pc with locals v.
Goto(pc, v) ==
    /\ stack' = Append(Caller, Frame(Top.fn, pc, v))
    /\ UNCHANGED <<rv, ret, call, held, wrote, chain>>

\* The function on top of the stack awaits callee and resumes at pc.
Await(pc, v, callee) ==
    /\ stack' = Caller \o <<Frame(Top.fn, pc, v), callee>>
    /\ UNCHANGED <<rv, ret, call, held, wrote, chain>>

ResetFrame == Frame("reset", "start", [x |-> 0])
WriteByteFrame(value) == Frame("write_byte", "loop", [value |-> value, i |-> 0])
ReadByteFrame == Frame("read_byte", "loop", [output |-> 0, i |-> 0])

\* ------------------------------------------------- wait_for_high and reset
\* What the pin's wait-for-high does within the timeout: completes with
\* Ok as the pull-up raises the released line, completes with the pin's
\* error, or stays pending (line held low).
WaitOutcomes ==
    (IF pinLow THEN {"Pending"} ELSE {"Ok"})
        \cup (IF faults > 0 THEN {"Err", "Pending"} ELSE {})

reset_start(pin) ==
    /\ InFn("reset", "start")
    /\ pin \in WaitOutcomes
    /\ faults' = IF pin = (IF pinLow THEN "Pending" ELSE "Ok") THEN faults ELSE faults - 1
    /\ Await("after_wait", Top.v, Frame("wait_for_high", "select", [pin |-> pin]))
    /\ UNCHANGED <<bus, alarming, changes, dev, trace, slots, pinLow>>

wait_for_high_first ==
    /\ InFn("wait_for_high", "select")
    /\ Top.v.pin \in {"Ok", "Err"}
    /\ trace' = Append(trace, [op |-> "wait_for_high", res |-> Top.v.pin, val |-> 0])
    /\ Return(Ok(Unit))
    /\ UNCHANGED <<bus, alarming, changes, dev, slots, pinLow, faults>>

\* The timer's arm of the select returns Ok as well.
wait_for_high_second_ok ==
    /\ InFn("wait_for_high", "select")
    /\ Top.v.pin = "Pending"
    /\ trace' = Append(trace, Ev("after_micros", WaitTimeoutUs))
    /\ Return(Ok(Unit))
    /\ UNCHANGED <<bus, alarming, changes, dev, slots, pinLow, faults>>

wait_for_high_second ==
    /\ InFn("wait_for_high", "select")
    /\ Top.v.pin = "Pending"
    /\ trace' = Append(trace, Ev("after_micros", WaitTimeoutUs))
    /\ Return(Err("BusNotHigh"))
    /\ UNCHANGED <<bus, alarming, changes, dev, slots, pinLow, faults>>

\* The line is sampled while it is still driven.
reset_body_early(fail, low) ==
    [ev |-> Exec(<<Ev("set_bus_low", 0), Ev("delay_us", 480),
                   Ev("is_bus_low", B2N(low)), Ev("release_bus", 0),
                   Ev("delay_us", 70), Ev("delay_us", 410)>>, fail),
     res |-> IF fail = 0 THEN Ok(Flag(low)) ELSE Err("PinError")]

reset_body(fail, low) ==
    [ev |-> Exec(<<Ev("set_bus_low", 0), Ev("delay_us", 480),
                   Ev("release_bus", 0), Ev("delay_us", 70),
                   Ev("is_bus_low", B2N(low)), Ev("delay_us", 410)>>, fail),
     res |-> IF fail = 0 THEN Ok(Flag(low)) ELSE Err("PinError")]

reset_pulse(fail) ==
    /\ InFn("reset", "after_wait")
    /\ fail \in Fails(3)
    /\ IF ~rv.ok
       THEN fail = 0 /\ Return(rv) /\ NoPins
       ELSE LET r == reset_body(fail, bus # {})
                c == [dev |-> IF fail = 1 THEN dev ELSE DevReset,
                      ev |-> r.ev,
                      slots |-> <<[kind |-> "reset", bit |-> B2N(bus # {}),
                                   ok |-> r.res.ok]>>,
                      fail |-> 0, res |-> r.res]
            IN Pins(c, fail) /\ Return(r.res)

call_reset ==
    /\ Begin("reset", NoArg, <<ResetFrame>>)

\* -------------------------------------------------- byte-level primitives
write_byte_loop(fail) ==
    /\ InFn("write_byte", "loop")
    /\ fail \in Fails(2)
    /\ LET v == Top.v
           c == do_write_bit(Ctx(fail), v.value % 2 = 1)
       IN /\ Pins(c, fail)
          /\ IF ~c.res.ok THEN Return(c.res)
             ELSE IF v.i + 1 = ByteBits THEN Return(Ok(Unit))
             ELSE Goto("loop", [value |-> v.value \div 2, i |-> v.i + 1])

\* The sampled bit enters at the low end.
shift_in_low(output, bit) == ((output * 2) % 256) + (IF bit THEN 1 ELSE 0)

\* output >>= 1, then the sampled bit enters at the high end.
shift_in(output, bit) == (output \div 2) + (IF bit THEN 128 ELSE 0)

read_byte_loop(fail) ==
    /\ InFn("read_byte", "loop")
    /\ fail \in Fails(3)
    /\ LET v == Top.v
           c == do_read_bit(Ctx(fail))
           output == shift_in(v.output, c.res.val.flag)
       IN /\ Pins(c, fail)
          /\ IF ~c.res.ok THEN Return(c.res)
             ELSE IF v.i + 1 = ByteBits THEN Return(Ok(Byte(output)))
             ELSE Goto("loop", [output |-> output, i |-> v.i + 1])

call_write_byte(value) ==
    /\ stack = <<>>
    /\ stack' = <<WriteByteFrame(value)>>
    /\ call' = [fn |-> "write_byte", arg |-> [NoArg EXCEPT !.byte = value]]
    /\ trace' = <<>>
    /\ slots' = <<>>
    /\ ret' = Running
    /\ rv' = Ok(Unit)
    /\ wrote' = NothingWritten
    /\ UNCHANGED <<bus, alarming, changes, dev, pinLow, faults, held, chain>>

call_read_byte ==
    /\ Begin("read_byte", NoArg, <<ReadByteFrame>>)

\* One element of the buffer per iteration; k counts the elements started.
read_bytes_loop ==
    /\ InFn("read_bytes", "loop")
    /\ LET v == Top.v IN
       IF v.k > 1 /\ ~rv.ok THEN Return(rv)
       ELSE LET output == IF v.k > 1 THEN Append(v.output, rv.val.byte) ELSE v.output IN
            IF v.k > v.len THEN Return(Ok(Unit))
            ELSE Await("loop", [v EXCEPT !.k = v.k + 1, !.output = output], ReadByteFrame)
    /\ NoPins

call_read_bytes(len) ==
    /\ Begin("read_bytes", NoArg,
             <<Frame("read_bytes", "loop", [len |-> len, output |-> <<>>, k |-> 1])>>)

\* ------------------------------------------------------- addressing layer
AddrBytes == (AddrBits + ByteBits - 1) \div ByteBits

to_le_bytes(a) == [k \in 1 .. AddrBytes |-> (a \div (256 ^ (k - 1))) % 256]

\* The result of an element is not looked at.
write_bytes_loop_on ==
    /\ InFn("write_bytes", "loop")
    /\ LET v == Top.v IN
       IF v.k > Len(v.bytes) THEN Return(Ok(Unit))
       ELSE Await("loop", [v EXCEPT !.k = v.k + 1], WriteByteFrame(v.bytes[v.k]))
    /\ NoPins

write_bytes_loop ==
    /\ InFn("write_bytes", "loop")
    /\ LET v == Top.v IN
       IF v.k > 1 /\ ~rv.ok THEN Return(rv)
       ELSE IF v.k > Len(v.bytes) THEN Return(Ok(Unit))
       ELSE Await("loop", [v EXCEPT !.k = v.k + 1], WriteByteFrame(v.bytes[v.k]))
    /\ NoPins

call_write_bytes(bytes) ==
    /\ Begin("write_bytes", NoArg,
             <<Frame("write_bytes", "loop", [bytes |-> bytes, k |-> 1])>>)

match_address_start ==
    /\ InFn("match_address", "start")
    /\ Await("after_command", Top.v, WriteByteFrame(MATCH_ROM))
    /\ NoPins

match_address_after_command ==
    /\ InFn("match_address", "after_command")
    /\ IF ~rv.ok THEN Return(rv)
       ELSE Await("after_bytes", Top.v,
                  Frame("write_bytes", "loop",
                        [bytes |-> to_le_bytes(Top.v.address), k |-> 1]))
    /\ NoPins

match_address_after_bytes ==
    /\ InFn("match_address", "after_bytes")
    /\ IF ~rv.ok THEN Return(rv) ELSE Return(Ok(Unit))
    /\ NoPins

skip_address_start ==
    /\ InFn("skip_address", "start")
    /\ Await("after_command", Top.v, WriteByteFrame(SKIP_ROM))
    /\ NoPins

skip_address_after_command ==
    /\ InFn("skip_address", "after_command")
    /\ IF ~rv.ok THEN Return(rv) ELSE Return(Ok(Unit))
    /\ NoPins

call_send_command(command, address) ==
    /\ Begin("send_command", [NoArg EXCEPT !.byte = command, !.address = address],
             <<Frame("send_command", "after_reset",
                     [command |-> command, address |-> address]),
               ResetFrame>>)

send_command_after_reset ==
    /\ InFn("send_command", "after_reset")
    /\ IF ~rv.ok THEN Return(rv)
       ELSE IF Top.v.address.some
       THEN Await("after_select", Top.v,
                  Frame("match_address", "start", [address |-> Top.v.address.address]))
       ELSE Await("after_select", Top.v, Frame("skip_address", "start", [x |-> 0]))
    /\ NoPins

send_command_after_select ==
    /\ InFn("send_command", "after_select")
    /\ IF ~rv.ok THEN Return(rv)
       ELSE Await("after_command", Top.v, WriteByteFrame(Top.v.command))
    /\ NoPins

send_command_after_command ==
    /\ InFn("send_command", "after_command")
    /\ IF ~rv.ok THEN Return(rv) ELSE Return(Ok(Unit))
    /\ NoPins

\* ------------------------------------------------------------- the search
NewChain(only_alarming) ==
    [only_alarming |-> only_alarming, found |-> <<>>, ended |-> FALSE]

\* device_search returns res; the caller keeps a returned state for the
\* next call and notes the address.
SearchReturn(base, res) ==
    /\ stack' = <<>>
    /\ rv' = res
    /\ ret' = [fn |-> "device_search", res |-> res]
    /\ held' = IF res.ok /\ res.val.state.some THEN res.val.state ELSE held
    /\ UNCHANGED wrote
    /\ chain' = IF ~res.ok THEN base
                ELSE IF res.val.state.some
                THEN [base EXCEPT !.found = Append(@, res.val.state.address)]
                ELSE [base EXCEPT !.ended = TRUE]

\* The fast exhaustion check is missing.
exhausted_never(search_state) == FALSE

\* The previous pass left no branch to explore.
exhausted(search_state) == search_state.some /\ search_state.discrepancies = 0

SearchLocals(search_state, only_alarming) ==
    [search_state |-> search_state, only_alarming |-> only_alarming,
     last_discrepancy_index |-> 0, address |-> 0, discrepancies |-> 0,
     bit_index |-> 0]

device_search_entry(search_state, only_alarming) ==
    /\ stack = <<>>
    /\ \/ search_state = None
       \/ held.some /\ search_state = held /\ only_alarming = chain.only_alarming
    /\ call' = [fn |-> "device_search",
                arg |-> [NoArg EXCEPT !.search_state = search_state,
                                      !.only_alarming = only_alarming]]
    /\ trace' = <<>>
    /\ slots' = <<>>
    /\ LET base == IF search_state.some THEN chain ELSE NewChain(only_alarming) IN
       IF exhausted(search_state)
       THEN SearchReturn(base, Ok(State(None)))
       ELSE /\ stack' = <<Frame("device_search", "after_reset",
                                SearchLocals(search_state, only_alarming)),
                          ResetFrame>>
            /\ chain' = base
            /\ ret' = Running
            /\ rv' = Ok(Unit)
            /\ UNCHANGED <<held, wrote>>
    /\ UNCHANGED <<bus, alarming, changes, dev, pinLow, faults>>

\* The presence flag of the reset is not looked at.
no_device_ignored(present) == FALSE

\* The reset sampled no presence pulse.
no_device(present) == ~present

device_search_after_reset ==
    /\ InFn("device_search", "after_reset")
    /\ IF ~rv.ok THEN SearchReturn(chain, rv)
       ELSE IF no_device(rv.val.flag) THEN SearchReturn(chain, Ok(State(None)))
       ELSE Await("after_command", Top.v,
                  WriteByteFrame(IF Top.v.only_alarming THEN SEARCH_ALARM
                                 ELSE SEARCH_NORMAL))
    /\ NoPins
    /\ UNCHANGED call

\* A resumed search goes to the last discrepancy without the replay.
device_search_after_command_direct ==
    /\ InFn("device_search", "after_command")
    /\ LET v == Top.v IN
       IF ~rv.ok THEN SearchReturn(chain, rv) /\ UNCHANGED call
       ELSE IF v.search_state.some
       THEN Goto("resume", [v EXCEPT !.last_discrepancy_index = 0, !.bit_index = 0])
       ELSE Goto("walk", [v EXCEPT !.last_discrepancy_index = 0, !.address = 0,
                                   !.discrepancies = 0, !.bit_index = 0])
    /\ NoPins

device_search_after_command ==
    /\ InFn("device_search", "after_command")
    /\ LET v == Top.v IN
       IF ~rv.ok THEN SearchReturn(chain, rv) /\ UNCHANGED call
       ELSE IF v.search_state.some
       THEN Goto(IF 0 < v.search_state.last_discrepancy_index THEN "replay" ELSE "resume",
                 [v EXCEPT !.last_discrepancy_index = 0, !.bit_index = 0])
       ELSE Goto("walk", [v EXCEPT !.last_discrepancy_index = 0, !.address = 0,
                                   !.discrepancies = 0, !.bit_index = 0])
    /\ NoPins

device_search_replay(fail) ==
    /\ InFn("device_search", "replay")
    /\ fail \in Fails(8)
    /\ LET v == Top.v
           s == v.search_state
           bit_index == v.bit_index
           c1 == do_read_bit(Ctx(fail))
           c2 == do_read_bit(c1)
           was_discrepancy_bit == Bit(s.discrepancies, bit_index) # 0
           previous_chosen_bit == Bit(s.address, bit_index) # 0
           c3 == do_write_bit(c2, previous_chosen_bit)
       IN IF ~c1.res.ok THEN Pins(c1, fail) /\ SearchReturn(chain, c1.res) /\ UNCHANGED call
          ELSE IF ~c2.res.ok THEN Pins(c2, fail) /\ SearchReturn(chain, c2.res) /\ UNCHANGED call
          ELSE IF ~c3.res.ok THEN Pins(c3, fail) /\ SearchReturn(chain, c3.res) /\ UNCHANGED call
          ELSE /\ Pins(c3, fail)
               /\ Goto(IF bit_index + 1 < s.last_discrepancy_index THEN "replay" ELSE "resume",
                       [v EXCEPT !.last_discrepancy_index =
                                     IF was_discrepancy_bit THEN bit_index ELSE @,
                                 !.bit_index = bit_index + 1])

\* The flags of the previous pass are dropped.
resume_discrepancies_none(s) == 0

\* The resumed position's flag is left set.
resume_discrepancies_kept(s) == s.discrepancies

\* The branch taken and the mask kept at the last discrepancy.
resume_address(s) == SetBit(s.address, s.last_discrepancy_index)
resume_discrepancies(s) == ClearBit(s.discrepancies, s.last_discrepancy_index)

\* One response is taken for both.
reproduced_either(false_bit, true_bit) == false_bit \/ true_bit

\* Both responses are still seen at the last discrepancy.
reproduced(false_bit, true_bit) == false_bit /\ true_bit

device_search_resume(fail) ==
    /\ InFn("device_search", "resume")
    /\ fail \in Fails(8)
    /\ LET v == Top.v
           s == v.search_state
           c1 == do_read_bit(Ctx(fail))
           c2 == do_read_bit(c1)
           false_bit == ~c1.res.val.flag
           true_bit == ~c2.res.val.flag
           c3 == do_write_bit(c2, TRUE)
           continue_start_bit == s.last_discrepancy_index + 1
       IN IF ~c1.res.ok THEN Pins(c1, fail) /\ SearchReturn(chain, c1.res) /\ UNCHANGED call
          ELSE IF ~c2.res.ok THEN Pins(c2, fail) /\ SearchReturn(chain, c2.res) /\ UNCHANGED call
          ELSE IF ~reproduced(false_bit, true_bit)
          THEN Pins(c2, fail) /\ SearchReturn(chain, Err("UnexpectedResponse")) /\ UNCHANGED call
          ELSE IF ~c3.res.ok THEN Pins(c3, fail) /\ SearchReturn(chain, c3.res) /\ UNCHANGED call
          ELSE /\ Pins(c3, fail)
               /\ Goto(IF continue_start_bit < AddrBits THEN "walk" ELSE "finish",
                       [v EXCEPT !.address = resume_address(s),
                                 !.discrepancies = resume_discrepancies(s),
                                 !.bit_index = continue_start_bit])

\* A single response selects the other branch.
choose_inverted(false_bit, true_bit) ==
    [ok |-> false_bit \/ true_bit, chosen_bit |-> false_bit /\ ~true_bit,
     discrepancy |-> false_bit /\ true_bit]

\* A discrepancy takes the 1 branch first.
choose_high(false_bit, true_bit) ==
    [ok |-> false_bit \/ true_bit, chosen_bit |-> true_bit,
     discrepancy |-> false_bit /\ true_bit]

\* A discrepancy is not recorded.
choose_unrecorded(false_bit, true_bit) ==
    [ok |-> false_bit \/ true_bit, chosen_bit |-> ~false_bit /\ true_bit,
     discrepancy |-> FALSE]

\* The match on the two responses: whether the position fails, the bit
\* chosen and whether it is a discrepancy.
choose(false_bit, true_bit) ==
    CASE ~false_bit /\ ~true_bit -> [ok |-> FALSE, chosen_bit |-> FALSE, discrepancy |-> FALSE]
      [] ~false_bit /\ true_bit -> [ok |-> TRUE, chosen_bit |-> TRUE, discrepancy |-> FALSE]
      [] false_bit /\ ~true_bit -> [ok |-> TRUE, chosen_bit |-> FALSE, discrepancy |-> FALSE]
      [] false_bit /\ true_bit -> [ok |-> TRUE, chosen_bit |-> FALSE, discrepancy |-> TRUE]

\* A discrepancy is recorded in the mask and not as the last index.
device_search_walk_unindexed(fail) ==
    /\ InFn("device_search", "walk")
    /\ fail \in Fails(8)
    /\ LET v == Top.v
           bit_index == v.bit_index
           c1 == do_read_bit(Ctx(fail))
           c2 == do_read_bit(c1)
           false_bit == ~c1.res.val.flag
           true_bit == ~c2.res.val.flag
           m == choose(false_bit, true_bit)
           chosen_bit == m.chosen_bit
           c3 == do_write_bit(c2, chosen_bit)
       IN IF ~c1.res.ok THEN Pins(c1, fail) /\ SearchReturn(chain, c1.res) /\ UNCHANGED call
          ELSE IF ~c2.res.ok THEN Pins(c2, fail) /\ SearchReturn(chain, c2.res) /\ UNCHANGED call
          ELSE IF ~m.ok
          THEN Pins(c2, fail) /\ SearchReturn(chain, Err("UnexpectedResponse")) /\ UNCHANGED call
          ELSE IF ~c3.res.ok THEN Pins(c3, fail) /\ SearchReturn(chain, c3.res) /\ UNCHANGED call
          ELSE /\ Pins(c3, fail)
               /\ Goto(IF bit_index + 1 < AddrBits THEN "walk" ELSE "finish",
                       [v EXCEPT !.discrepancies =
                                     IF m.discrepancy THEN SetBit(@, bit_index) ELSE @,
                                 !.address =
                                     IF chosen_bit THEN SetBit(@, bit_index)
                                     ELSE ClearBit(@, bit_index),
                                 !.bit_index = bit_index + 1])

device_search_walk(fail) ==
    /\ InFn("device_search", "walk")
    /\ fail \in Fails(8)
    /\ LET v == Top.v
           bit_index == v.bit_index
           c1 == do_read_bit(Ctx(fail))
           c2 == do_read_bit(c1)
           false_bit == ~c1.res.val.flag
           true_bit == ~c2.res.val.flag
           m == choose(false_bit, true_bit)
           chosen_bit == m.chosen_bit
           c3 == do_write_bit(c2, chosen_bit)
       IN IF ~c1.res.ok THEN Pins(c1, fail) /\ SearchReturn(chain, c1.res) /\ UNCHANGED call
          ELSE IF ~c2.res.ok THEN Pins(c2, fail) /\ SearchReturn(chain, c2.res) /\ UNCHANGED call
          ELSE IF ~m.ok
          THEN Pins(c2, fail) /\ SearchReturn(chain, Err("UnexpectedResponse")) /\ UNCHANGED call
          ELSE IF ~c3.res.ok THEN Pins(c3, fail) /\ SearchReturn(chain, c3.res) /\ UNCHANGED call
          ELSE /\ Pins(c3, fail)
               /\ Goto(IF bit_index + 1 < AddrBits THEN "walk" ELSE "finish",
                       [v EXCEPT !.discrepancies =
                                     IF m.discrepancy THEN SetBit(@, bit_index) ELSE @,
                                 !.last_discrepancy_index =
                                     IF m.discrepancy THEN bit_index ELSE @,
                                 !.address =
                                     IF chosen_bit THEN SetBit(@, bit_index)
                                     ELSE ClearBit(@, bit_index),
                                 !.bit_index = bit_index + 1])

\* The assembled address is returned unchecked.
finish_unchecked(v) ==
    Ok(State(SearchState(v.address, v.discrepancies, v.last_discrepancy_index)))

\* The checksum decides between the error and the address with its state.
finish(v) ==
    IF ~check_crc8(v.address).ok THEN check_crc8(v.address)
    ELSE Ok(State(SearchState(v.address, v.discrepancies, v.last_discrepancy_index)))

device_search_finish ==
    /\ InFn("device_search", "finish")
    /\ SearchReturn(chain, finish(Top.v))
    /\ NoPins
    /\ UNCHANGED call

\* ------------------------------------------------------------ environment
\* Devices are taken off the line between two calls.
remove_devices(gone) ==
    /\ stack = <<>>
    /\ changes > 0
    /\ gone # {}
    /\ gone \subseteq bus
    /\ bus' = bus \ gone
    /\ alarming' = alarming \ gone
    /\ changes' = changes - 1
    /\ UNCHANGED <<dev, stack, rv, trace, slots, pinLow, held, wrote, chain, call, ret,
                   faults>>

\* Devices are put on the line between two calls.
add_devices(new) ==
    /\ stack = <<>>
    /\ changes > 0
    /\ new # {}
    /\ new \cap bus = {}
    /\ Cardinality(bus \cup new) <= MaxDevices
    /\ bus' = bus \cup new
    /\ changes' = changes - 1
    /\ UNCHANGED <<alarming, dev, stack, rv, trace, slots, pinLow, held, wrote, chain,
                   call, ret, faults>>

\* --------------------------------------------------------- specifications
CommandSet == {68, 190}

Fixture(addresses, n) ==
    /\ bus \in {b \in SUBSET addresses : Cardinality(b) <= n}
    /\ stack = <<>>
    /\ rv = Ok(Unit)
    /\ trace = <<>>
    /\ slots = <<>>
    /\ pinLow = FALSE
    /\ held = None
    /\ wrote = NothingWritten
    /\ chain = NewChain(FALSE)
    /\ call = [fn |-> "none", arg |-> NoArg]
    /\ ret = Running

\* Any devices, a pin that may fail and a line that may stay low.
Init ==
    /\ Fixture(Addresses, MaxLoose)
    /\ alarming \in SUBSET bus
    /\ dev = DevIdle
    /\ faults = MaxFaults
    /\ changes = MaxChanges

Next ==
    \/ \E s \in {None, held}, only_alarming \in BOOLEAN : device_search_entry(s, only_alarming)
    \/ device_search_after_reset
    \/ device_search_after_command
    \/ \E fail \in 0 .. 8 : device_search_replay(fail)
    \/ \E fail \in 0 .. 8 : device_search_resume(fail)
    \/ \E fail \in 0 .. 8 : device_search_walk(fail)
    \/ device_search_finish
    \/ \E pin \in {"Ok", "Err", "Pending"} : reset_start(pin)
    \/ wait_for_high_first
    \/ wait_for_high_second
    \/ \E fail \in 0 .. 3 : reset_pulse(fail)
    \/ \E fail \in 0 .. 2 : write_byte_loop(fail)
    \/ \E gone \in SUBSET bus : remove_devices(gone)

Spec == Init /\ [][Next]_vars

\* Device transactions on a bus of any devices with a pin that may fail.
CommandInit ==
    /\ Fixture(Addresses, MaxLoose)
    /\ alarming = {}
    /\ dev = DevIdle
    /\ faults = MaxFaults
    /\ changes = 0

CommandNext ==
    \/ \E command \in CommandSet, address \in {NoAddress} \cup {SomeAddress(a) : a \in bus} :
           call_send_command(command, address)
    \/ send_command_after_reset
    \/ send_command_after_select
    \/ send_command_after_command
    \/ match_address_start
    \/ match_address_after_command
    \/ match_address_after_bytes
    \/ skip_address_start
    \/ skip_address_after_command
    \/ write_bytes_loop
    \/ \E pin \in {"Ok", "Err", "Pending"} : reset_start(pin)
    \/ wait_for_high_first
    \/ wait_for_high_second
    \/ \E fail \in 0 .. 3 : reset_pulse(fail)
    \/ \E fail \in 0 .. 2 : write_byte_loop(fail)

CommandSpec == CommandInit /\ [][CommandNext]_vars

\* Bytes written to and read back from the loopback fixture.
ByteInit ==
    /\ Fixture({}, 0)
    /\ alarming = {}
    /\ dev = DevEcho
    /\ faults = 0
    /\ changes = 0

\* The round trip: a byte is written when the fixture can take one and
\* read when the fixture has one to echo.
ByteNext ==
    \/ ~dev.tx /\ \E value \in Bytes : call_write_byte(value)
    \/ write_byte_loop(0)
    \/ dev.tx /\ call_read_byte
    \/ read_byte_loop(0)

ByteSpec == ByteInit /\ [][ByteNext]_vars

\* Reset pulses; the timer of wait_for_high fires and a pin that completes
\* its wait is polled.
ResetInit ==
    /\ Fixture(Addresses, MaxLoose)
    /\ alarming = {}
    /\ dev = DevIdle
    /\ faults = MaxFaults
    /\ changes = 0

ResetNext ==
    \/ call_reset
    \/ \E pin \in {"Ok", "Err", "Pending"} : reset_start(pin)
    \/ wait_for_high_first
    \/ wait_for_high_second
    \/ \E fail \in 0 .. 3 : reset_pulse(fail)

\* A call that has started runs on: its timer fires, its task is polled.
ResetRun ==
    \/ \E pin \in {"Ok", "Err", "Pending"} : reset_start(pin)
    \/ wait_for_high_first
    \/ wait_for_high_second
    \/ \E fail \in 0 .. 3 : reset_pulse(fail)

ResetSpec ==
    /\ ResetInit
    /\ [][ResetNext]_vars
    /\ WF_vars(ResetRun)

\* Every composed operation on a bus of any devices with a pin that may
\* fail.
AbortInit ==
    /\ Fixture(Addresses, MaxLoose)
    /\ alarming = {}
    /\ dev = DevIdle
    /\ faults = MaxFaults
    /\ changes = 0

AbortNext ==
    \/ \E s \in {None, held} : device_search_entry(s, FALSE)
    \/ device_search_after_reset
    \/ device_search_after_command
    \/ \E fail \in 0 .. 8 : device_search_replay(fail)
    \/ \E fail \in 0 .. 8 : device_search_resume(fail)
    \/ \E fail \in 0 .. 8 : device_search_walk(fail)
    \/ device_search_finish
    \/ \E command \in CommandSet, address \in {NoAddress} \cup {SomeAddress(a) : a \in bus} :
           call_send_command(command, address)
    \/ send_command_after_reset
    \/ send_command_after_select
    \/ send_command_after_command
    \/ match_address_start
    \/ match_address_after_command
    \/ match_address_after_bytes
    \/ skip_address_start
    \/ skip_address_after_command
    \/ \E bytes \in [1 .. MaxBuf -> CommandSet] : call_write_bytes(bytes)
    \/ write_bytes_loop
    \/ call_read_bytes(MaxBuf)
    \/ read_bytes_loop
    \/ \E pin \in {"Ok", "Err", "Pending"} : reset_start(pin)
    \/ wait_for_high_first
    \/ wait_for_high_second
    \/ \E fail \in 0 .. 3 : reset_pulse(fail)
    \/ \E fail \in 0 .. 2 : write_byte_loop(fail)
    \/ \E fail \in 0 .. 3 : read_byte_loop(fail)

AbortSpec == AbortInit /\ [][AbortNext]_vars

\* The static fixture: checksum-valid devices, a working pin and pull-up.
SearchInit ==
    /\ Fixture(ValidAddresses, MaxDevices)
    /\ alarming \in SUBSET bus
    /\ dev = DevIdle
    /\ faults = 0
    /\ changes = 0

SearchNext ==
    \/ \E s \in {None, held}, only_alarming \in BOOLEAN : device_search_entry(s, only_alarming)
    \/ device_search_after_reset
    \/ device_search_after_command
    \/ device_search_replay(0)
    \/ device_search_resume(0)
    \/ device_search_walk(0)
    \/ device_search_finish
    \/ reset_start("Ok")
    \/ wait_for_high_first
    \/ reset_pulse(0)
    \/ write_byte_loop(0)

SearchSpec == SearchInit /\ [][SearchNext]_vars

\* A bus of checksum-valid devices that come and go, one at a time, between
\* the calls of an enumeration; a working pin and pull-up.
ChangeInit ==
    /\ Fixture(ValidAddresses, MaxDevices)
    /\ alarming = {}
    /\ dev = DevIdle
    /\ faults = 0
    /\ changes = MaxChanges

ChangeNext ==
    \/ \E s \in {None, held} : device_search_entry(s, FALSE)
    \/ device_search_after_reset
    \/ device_search_after_command
    \/ device_search_replay(0)
    \/ device_search_resume(0)
    \/ device_search_walk(0)
    \/ device_search_finish
    \/ reset_start("Ok")
    \/ wait_for_high_first
    \/ reset_pulse(0)
    \/ write_byte_loop(0)
    \/ \E a \in bus : remove_devices({a})
    \/ \E a \in ValidAddresses : add_devices({a})

ChangeSpec == ChangeInit /\ [][ChangeNext]_vars

\* -------------------------------------------------------------- the search
\* The devices that answer the search command of the enumeration.
Responders == IF chain.only_alarming THEN alarming ELSE bus

Found == {chain.found[i] : i \in 1 .. Len(chain.found)}

\* ROM codes compared in transmission order: bit 0 is sent first and
\* weighs most.
RECURSIVE Reversed(_, _)
Reversed(a, n) == IF n = 0 THEN 0 ELSE (a % 2) * 2 ^ (n - 1) + Reversed(a \div 2, n - 1)

IsErr(r, e) == ~r.ok /\ r.err = e

Returned == stack = <<>> /\ ret.fn = "device_search"
ReturnedSome == Returned /\ ret.res.ok /\ ret.res.val.state.some
ReturnedNone == Returned /\ ret.res.ok /\ ~ret.res.val.state.some

\* C1: on a static bus of distinct checksum-valid devices a threaded
\* enumeration returns only addresses of devices on the bus, none of them
\* twice, and has returned every one of them when it returns None.
C1_EnumeratesEveryDevice ==
    /\ Found \subseteq Responders
    /\ \A i, j \in 1 .. Len(chain.found) : i # j => chain.found[i] # chain.found[j]
    /\ chain.ended => Found = Responders

C1_Witness ==
    /\ ReturnedNone
    /\ Len(chain.found) = MaxDevices
    /\ Cardinality(bus) = MaxDevices

\* C2 as stated: each address returned is numerically greater than the one
\* returned before it.
C2_AscendingNumeric ==
    \A i \in 1 .. Len(chain.found) - 1 : chain.found[i] < chain.found[i + 1]

\* C2: each address returned is greater than the one returned before it
\* when the ROM codes are compared in transmission order, bit 0 weighing
\* most.
C2_AscendingTransmissionOrder ==
    \A i \in 1 .. Len(chain.found) - 1 :
        Reversed(chain.found[i], AddrBits) < Reversed(chain.found[i + 1], AddrBits)

C2_Witness ==
    /\ ReturnedSome
    /\ Len(chain.found) = MaxDevices
    /\ chain.found[1] > chain.found[2]

\* C3: the state returned with the k-th address has discrepancies = 0
\* exactly when k is the number of devices, and the enumeration returns
\* None after that many addresses.
C3_ExhaustedAtLastDevice ==
    /\ ReturnedSome =>
           (ret.res.val.state.discrepancies = 0 <=> Len(chain.found) = Cardinality(Responders))
    /\ chain.ended => Len(chain.found) = Cardinality(Responders)

C3_Witness ==
    /\ ReturnedSome
    /\ ret.res.val.state.discrepancies = 0
    /\ Len(chain.found) = MaxDevices

C3_WitnessSingle ==
    /\ ReturnedSome
    /\ ret.res.val.state.discrepancies = 0
    /\ Cardinality(bus) = 1
    /\ Len(chain.found) = 1

\* The arguments of the search in progress or completed last.
SearchCall == call.fn = "device_search"
Resumed == SearchCall /\ call.arg.search_state.some
ResumedAt == call.arg.search_state.last_discrepancy_index

\* The reset of the call sampled the line and found no presence pulse.
NoPresence ==
    /\ slots # <<>>
    /\ slots[1].kind = "reset" /\ slots[1].ok /\ slots[1].bit = 0

\* C4: a search resumed from a state with discrepancies = 0 returns None
\* at once, whatever is on the bus, without a pin operation or a delay.
C4_ExhaustedReturnsNoneUntouched ==
    (Resumed /\ call.arg.search_state.discrepancies = 0) =>
        /\ ReturnedNone
        /\ trace = <<>>
        /\ slots = <<>>

C4_Witness ==
    /\ Resumed
    /\ call.arg.search_state.discrepancies = 0
    /\ call.arg.search_state.address # 0
    /\ ReturnedNone
    /\ bus # {}

\* C5: a search whose reset samples no presence pulse returns None with
\* the reset as its only slot: no command bit is written and no position
\* exchanged, in a fresh and in a resumed search.
C5_EmptyBusReturnsNoneAfterReset ==
    (SearchCall /\ NoPresence) =>
        /\ Len(slots) = 1
        /\ stack = <<>> => ReturnedNone

C5_Witness ==
    /\ Resumed
    /\ call.arg.search_state.discrepancies # 0
    /\ NoPresence
    /\ ReturnedNone

C5_WitnessFresh ==
    /\ SearchCall /\ ~Resumed
    /\ NoPresence
    /\ ReturnedNone

\* C6: a pass whose assembled address fails the checksum returns the
\* checksum error, and the caller gets no address and no new state; a pass
\* returns an address only if the address passes the checksum.
C6_ChecksumGuardsAddress ==
    [][InFn("device_search", "finish") =>
          IF check_crc8(Top.v.address).ok
          THEN ret'.res.ok /\ ret'.res.val.state.some /\ ret'.res.val.state.address = Top.v.address
          ELSE /\ IsErr(ret'.res, "ChecksumMismatch")
               /\ held' = held
               /\ chain' = chain]_vars

C6_Witness ==
    /\ Returned
    /\ IsErr(ret.res, "ChecksumMismatch")

\* The slots of bit position p of a search: two reads and a write, after
\* the reset and the command byte.
PositionSlot(p) == 1 + ByteBits + 3 * p

\* C9: a resumed search that does not see both responses at the last
\* discrepancy fails with UnexpectedResponse, returns no address and starts
\* no write slot for that position or a later one.
C9_LostDiscrepancyFails ==
    LET at == PositionSlot(ResumedAt) IN
    (/\ Resumed
     /\ call.arg.search_state.discrepancies # 0
     /\ Len(slots) >= at + 2
     /\ slots[at + 1].ok /\ slots[at + 2].ok
     /\ ~(slots[at + 1].bit = 0 /\ slots[at + 2].bit = 0)) =>
        /\ Len(slots) = at + 2
        /\ Returned
        /\ IsErr(ret.res, "UnexpectedResponse")
        /\ held = call.arg.search_state

C9_Witness ==
    /\ Resumed
    /\ ResumedAt >= 1
    /\ Returned
    /\ IsErr(ret.res, "UnexpectedResponse")
    /\ Len(slots) = PositionSlot(ResumedAt) + 2
    /\ slots[Len(slots)].kind = "read" /\ slots[Len(slots)].bit = 1

\* -------------------------------------------------------- wait_for_high
WaitingOn(pin) == InFn("wait_for_high", "select") /\ Top.v.pin = pin

DrivesLow == \E i \in 1 .. Len(trace) : trace[i].op = "set_bus_low"

TimedOut ==
    /\ stack = <<>>
    /\ ret.fn = "reset"
    /\ IsErr(ret.res, "BusNotHigh")
    /\ trace = <<Ev("after_micros", WaitTimeoutUs)>>
    /\ ~DrivesLow

\* C7: a wait on a pin that never reports high ends when the timer fires,
\* with BusNotHigh, and the reset returns BusNotHigh without driving the
\* line low; a wait on a pin that reports high in time returns Ok.
C7_WaitForHighTimesOut ==
    /\ WaitingOn("Pending") ~> TimedOut
    /\ [][WaitingOn("Pending") => IsErr(rv', "BusNotHigh")]_vars
    /\ [][WaitingOn("Ok") => rv'.ok]_vars

C7_Witness == TimedOut

\* ------------------------------------------------------------ bytes
Samples == [i \in 1 .. Len(slots) |-> slots[i].bit]

\* C8: read_byte fed the bits write_byte(v) emitted returns v; write_byte
\* emits bit 0 first and read_byte puts the first sample at bit 0.
C8_ByteRoundTrip ==
    /\ (stack = <<>> /\ ret.fn = "write_byte" /\ ret.res.ok) =>
           /\ Len(wrote.bits) = ByteBits
           /\ \A i \in 1 .. ByteBits : wrote.bits[i] = Bit(call.arg.byte, i - 1)
    /\ (stack = <<>> /\ ret.fn = "read_byte" /\ ret.res.ok) =>
           /\ Len(slots) = ByteBits
           /\ \A i \in 1 .. ByteBits : Bit(ret.res.val.byte, i - 1) = slots[i].bit
           /\ Samples = wrote.bits => ret.res.val.byte = wrote.value

C8_Witness ==
    /\ stack = <<>>
    /\ ret.fn = "read_byte" /\ ret.res.ok /\ ret.res.val.byte = 166
    /\ wrote.value = 166
    /\ Samples = wrote.bits

\* --------------------------------------------------------- send_command
\* C10 as stated: send_command whose reset samples no presence pulse fails
\* and writes neither the MATCH-ROM/SKIP-ROM byte nor the command byte.
C10_SendCommandFailsWithoutPresence ==
    (call.fn = "send_command" /\ NoPresence) =>
        /\ Len(slots) = 1
        /\ stack = <<>> => ~ret.res.ok

\* --------------------------------------------------------------- failures
\* A pin call of the call in progress or completed last returned an error.
PinFailed == \E i \in 1 .. Len(trace) : trace[i].res = "Err"

Completed == stack = <<>> /\ ret.fn # "none"

\* C11 as stated: a driver operation during which a pin call (drive-low,
\* release, read-level or the pin's wait-for-high) returned an error
\* returns an error to its caller.
C11_PinErrorSurfaces ==
    (Completed /\ PinFailed) => ~ret.res.ok

\* C12: a time slot that fails is the last slot of its call and the failing
\* pin call its last event, so no later bit, byte or buffer element is
\* started; the operation returns the pin error of that slot.
C12_AbortOnFirstFailure ==
    \A i \in 1 .. Len(slots) :
        ~slots[i].ok =>
            /\ i = Len(slots)
            /\ trace[Len(trace)].res = "Err"
            /\ Completed => IsErr(ret.res, "PinError")

\* The first element of a buffer fails and the second is not started.
C12_Witness ==
    /\ Completed
    /\ call.fn = "read_bytes"
    /\ Len(slots) \in 1 .. ByteBits
    /\ ~slots[Len(slots)].ok
    /\ IsErr(ret.res, "PinError")

C12_WitnessWrite ==
    /\ Completed
    /\ call.fn = "write_bytes"
    /\ Len(slots) \in 1 .. ByteBits
    /\ ~slots[Len(slots)].ok

C12_WitnessCommand ==
    /\ Completed
    /\ call.fn = "send_command"
    /\ call.arg.address.some
    /\ Len(slots) \in 1 + ByteBits + 1 .. 1 + ByteBits + ByteBits * AddrBytes
    /\ ~slots[Len(slots)].ok

C12_WitnessSearch ==
    /\ Completed
    /\ Resumed
    /\ Len(slots) > PositionSlot(1)
    /\ ~slots[Len(slots)].ok

\* ------------------------------------------------------------------ reset
ResetOk == Completed /\ ret.fn = "reset" /\ ret.res.ok

\* C13: a reset that does not fail has waited for the line to be high,
\* driven low, delayed 480, released, delayed 70, sampled the line once,
\* delayed 410, in this order and nothing else; it returns true exactly
\* when the sample found the line low.
C13_ResetEventOrder ==
    ResetOk =>
        /\ Len(trace) = 7
        /\ trace[1].op = "wait_for_high"
        /\ \E low \in BOOLEAN :
              /\ SubSeq(trace, 2, 7) =
                     <<Ev("set_bus_low", 0), Ev("delay_us", 480),
                       Ev("release_bus", 0), Ev("delay_us", 70),
                       Ev("is_bus_low", B2N(low)), Ev("delay_us", 410)>>
              /\ ret.res.val.flag = low
              /\ low <=> bus # {}

C13_Witness ==
    /\ ResetOk
    /\ ret.res.val.flag
    /\ trace[6] = Ev("is_bus_low", 1)

C13_WitnessAbsent ==
    /\ ResetOk
    /\ ~ret.res.val.flag
    /\ trace[6] = Ev("is_bus_low", 0)

\* ------------------------------------------------------- the search passes
CommandByte == IF call.arg.only_alarming THEN SEARCH_ALARM ELSE SEARCH_NORMAL

\* C14: a pass that returns an address has issued the reset, the eight
\* write slots of the search command and then, for every bit position in
\* ascending order, two read slots and a write slot, and nothing else, in
\* a fresh and in a resumed search; the write slot of position p carries
\* bit p of the returned address.
C14_LockStepGroups ==
    ReturnedSome =>
        /\ Len(slots) = 1 + ByteBits + 3 * AddrBits
        /\ slots[1].kind = "reset"
        /\ \A i \in 1 .. ByteBits :
              slots[1 + i].kind = "write" /\ slots[1 + i].bit = Bit(CommandByte, i - 1)
        /\ \A p \in 0 .. AddrBits - 1 :
              /\ slots[PositionSlot(p) + 1].kind = "read"
              /\ slots[PositionSlot(p) + 2].kind = "read"
              /\ slots[PositionSlot(p) + 3].kind = "write"
              /\ slots[PositionSlot(p) + 3].bit = Bit(ret.res.val.state.address, p)

\* A resumed pass with replayed positions below the resumed one.
C14_Witness ==
    /\ ReturnedSome
    /\ Resumed
    /\ ResumedAt >= 1
    /\ Len(slots) = 1 + ByteBits + 3 * AddrBits

C14_WitnessFresh ==
    /\ ReturnedSome
    /\ ~Resumed
    /\ ret.res.val.state.address # 0

\* The locals of the search after a step that leaves it running.
After_v == stack'[Len(stack')].v

\* C15: at a position of the main walk whose two read slots succeed, with
\* a response being a slot that samples the line low: no response fails
\* with UnexpectedResponse and writes nothing; the 0-response alone writes
\* and records 0; the 1-response alone writes and records 1; both write
\* and record 0, set the position in discrepancies and make it
\* last_discrepancy_index; without both, these two are left as they were.
C15_TruthTable ==
    [][(/\ InFn("device_search", "walk")
        /\ Len(slots') >= Len(slots) + 2
        /\ slots'[Len(slots) + 1].ok
        /\ slots'[Len(slots) + 2].ok) =>
          LET v == Top.v
              p == v.bit_index
              zero == slots'[Len(slots) + 1].bit = 0
              one == slots'[Len(slots) + 2].bit = 0
              chosen == IF one /\ ~zero THEN 1 ELSE 0
          IN IF ~zero /\ ~one
             THEN /\ Len(slots') = Len(slots) + 2
                  /\ stack' = <<>>
                  /\ IsErr(ret'.res, "UnexpectedResponse")
             ELSE /\ Len(slots') = Len(slots) + 3
                  /\ slots'[Len(slots) + 3].kind = "write"
                  /\ slots'[Len(slots) + 3].bit = chosen
                  /\ slots'[Len(slots) + 3].ok =>
                        /\ stack' # <<>>
                        /\ Bit(After_v.address, p) = chosen
                        /\ \A q \in 0 .. AddrBits - 1 :
                              q # p => Bit(After_v.address, q) = Bit(v.address, q)
                        /\ After_v.discrepancies =
                               IF zero /\ one THEN SetBit(v.discrepancies, p)
                               ELSE v.discrepancies
                        /\ After_v.last_discrepancy_index =
                               IF zero /\ one THEN p ELSE v.last_discrepancy_index]_vars

\* Both responses at a position above 0 of a pass still running.
C15_Witness ==
    /\ stack # <<>>
    /\ Top.fn = "device_search"
    /\ Top.pc \in {"walk", "finish"}
    /\ \E p \in 1 .. AddrBits - 1 :
          /\ p < Top.v.bit_index
          /\ Top.v.last_discrepancy_index = p
          /\ Bit(Top.v.discrepancies, p) = 1
          /\ Bit(Top.v.address, p) = 0
          /\ slots[PositionSlot(p) + 1].bit = 0
          /\ slots[PositionSlot(p) + 2].bit = 0

\* No response at the first position of a fresh pass.
C15_WitnessNone ==
    /\ Returned
    /\ ~Resumed
    /\ IsErr(ret.res, "UnexpectedResponse")
    /\ Len(slots) = PositionSlot(0) + 2
    /\ slots[Len(slots) - 1].bit = 1 /\ slots[Len(slots)].bit = 1

\* The 1-response alone.
C15_WitnessOne ==
    /\ ReturnedSome
    /\ \E p \in 0 .. AddrBits - 1 :
          /\ slots[PositionSlot(p) + 1].bit = 1
          /\ slots[PositionSlot(p) + 2].bit = 0
          /\ Bit(ret.res.val.state.address, p) = 1
          /\ Bit(ret.res.val.state.discrepancies, p) = 0

\* ------------------------------------------------------ the returned state
Previous == call.arg.search_state
Result == ret.res.val.state

\* C16: a resumed pass that returns an address keeps the previous address
\* below the resumed position p whatever the read slots there sampled,
\* has bit p set, and returns the previous discrepancies below p with the
\* flag of p cleared.
C16_ResumedPassKeepsPrefix ==
    (ReturnedSome /\ Resumed) =>
        /\ \A q \in 0 .. ResumedAt - 1 :
              /\ Bit(Result.address, q) = Bit(Previous.address, q)
              /\ Bit(Result.discrepancies, q) = Bit(Previous.discrepancies, q)
        /\ Bit(Result.address, ResumedAt) = 1
        /\ Bit(Result.discrepancies, ResumedAt) = 0

\* A replayed position that was a discrepancy and now shows one response.
C16_Witness ==
    /\ ReturnedSome
    /\ Resumed
    /\ \E q \in 0 .. ResumedAt - 1 :
          /\ Bit(Previous.discrepancies, q) = 1
          /\ Bit(Result.discrepancies, q) = 1
          /\ slots[PositionSlot(q) + 1].bit = 0
          /\ slots[PositionSlot(q) + 2].bit = 1

\* A replayed position that showed one response and now shows both.
C16_WitnessAdded ==
    /\ ReturnedSome
    /\ Resumed
    /\ \E q \in 0 .. ResumedAt - 1 :
          /\ Bit(Previous.discrepancies, q) = 0
          /\ slots[PositionSlot(q) + 1].bit = 0
          /\ slots[PositionSlot(q) + 2].bit = 0

\* C17: in every state returned by a threaded enumeration no position is
\* set both in address and in discrepancies.
C17_DiscrepanciesTookZero ==
    /\ ReturnedSome =>
          \A q \in 0 .. AddrBits - 1 :
              Bit(Result.discrepancies, q) = 1 => Bit(Result.address, q) = 0
    /\ held.some =>
          \A q \in 0 .. AddrBits - 1 :
              Bit(held.discrepancies, q) = 1 => Bit(held.address, q) = 0

\* A resumed pass returns a state with a discrepancy left and bits set.
C17_Witness ==
    /\ ReturnedSome
    /\ Resumed
    /\ Result.discrepancies # 0
    /\ Result.address # 0

\* The position of the highest bit set in d (0 for d = 0).
RECURSIVE HighestBit(_)
HighestBit(d) == IF d \div 2 = 0 THEN 0 ELSE 1 + HighestBit(d \div 2)

C18_WitnessAbove ==
    /\ ReturnedSome
    /\ Resumed
    /\ Result.last_discrepancy_index > ResumedAt

\* ---------------------------------------------------------------- the line
\* A release_bus call of the call in progress or completed last failed.
ReleaseFailed ==
    \E i \in 1 .. Len(trace) : trace[i].op = "release_bus" /\ trace[i].res = "Err"

\* C19 as stated: an operation during which no release_bus call failed
\* returns with a release as the last successful drive of the pin.
C19_ReleasedOnReturn ==
    (Completed /\ ~ReleaseFailed) => ~pinLow

\* C19: the drive operations of an operation never leave the line low
\* unless its release_bus failed, and the failed release is then its last
\* event; a step takes the pin from released to driven low only by such a
\* release.  An operation that starts with the line released and whose
\* release_bus calls succeed returns with the line released.
C19_LowOnlyByFailedRelease ==
    /\ [](Driven(FALSE, trace) =>
              /\ ReleaseFailed
              /\ trace[Len(trace)].op = "release_bus"
              /\ trace[Len(trace)].res = "Err")
    /\ [][(~pinLow /\ pinLow') => ReleaseFailed']_vars
    /\ [][(~pinLow /\ ~ReleaseFailed') => ~pinLow']_vars

\* An operation ended by a failed pin call other than a release.
C19_Witness ==
    /\ Completed
    /\ PinFailed
    /\ ~ReleaseFailed
    /\ ~ret.res.ok
    /\ \E i \in 1 .. Len(trace) : trace[i].op = "set_bus_low" /\ trace[i].res = "Ok"
    /\ ~pinLow

\* An operation that starts with the line left low by an earlier one and
\* returns without a drive of its own.
C19_WitnessLeftLow ==
    /\ Completed
    /\ ~ReleaseFailed
    /\ pinLow
    /\ IsErr(ret.res, "BusNotHigh")

====
